---- MODULE Spec2Model ----
(***************************************************************************)
(* Buddy matching of the Dots backend: the compatibility score             *)
(* (services/buddying.py, calculate_buddy_score), the candidate ranking    *)
(* (find_potential_buddies) and the buddy-request handlers                 *)
(* (api/buddies.py, create_buddy_request) over the buddies table.          *)
(*                                                                         *)
(* Units.  A factor is held in thousandths of the total weight 1.0 (0.175  *)
(* is 175).  A returned score is held in ten-thousandths of a point        *)
(* (100.00 is 1000000), so that rounding to two decimals is observable: a  *)
(* rounded score is a multiple of 100.                                     *)
(***************************************************************************)
EXTENDS Integers, Sequences, FiniteSets, TLC

(***************************************************************************)
(* Bounds of the model.                                                    *)
(***************************************************************************)
\* sport ids are 1..MaxSportId, goal ids are 1..MaxGoalId
MaxSportId == 3
MaxGoalId == 3
\* ages are 0..MaxAge, approved-event counts are 0..MaxEvents
MaxAge == 17
MaxEvents == 16

(***************************************************************************)
(* Values of a profile field.                                              *)
(***************************************************************************)
\* Python None for an optional integer (age, id, limit)
None == 0 - 1
\* an age that is no number (a text value in the age column)
NotANumber == 0 - 2

Min(a, b) == IF a <= b THEN a ELSE b
Abs(a) == IF a < 0 THEN 0 - a ELSE a

\* Python truthiness of an optional integer: None and 0 are falsy
Truthy(n) == n /= None /\ n /= 0

(***************************************************************************)
(* Location strings: sequences of characters.                              *)
(***************************************************************************)
NoLocation == << >>
WashingtonCommaDC ==
    <<"W", "a", "s", "h", "i", "n", "g", "t", "o", "n", ",", " ", "D", "C">>
WashingtonDC ==
    <<"W", "a", "s", "h", "i", "n", "g", "t", "o", "n", " ", "D", "C">>
PaddedLowerDC ==
    <<" ", "w", "a", "s", "h", "i", "n", "g", "t", "o", "n", ",", " ", "d", "c", " ">>
JustDC == <<"D", "C">>
OremUtah == <<"O", "r", "e", "m", " ", "U", "T", " ", "U", "S", "A">>
LehiUtah == <<"L", "e", "h", "i", " ", "U", "T", " ", "U", "S", "A">>
Blank == <<" ">>
DCMetro == <<"D", "C", " ", "M", "e", "t", "r", "o">>

\* str.lower() on one character
LowerChar(c) ==
    CASE c = "W" -> "w"
      [] c = "D" -> "d"
      [] c = "C" -> "c"
      [] c = "O" -> "o"
      [] c = "L" -> "l"
      [] c = "U" -> "u"
      [] c = "T" -> "t"
      [] c = "S" -> "s"
      [] c = "A" -> "a"
      [] c = "M" -> "m"
      [] OTHER -> c

Lower(s) == [i \in 1..Len(s) |-> LowerChar(s[i])]

IsSpace(c) == c = " "

RECURSIVE LStrip(_)
LStrip(s) == IF s /= << >> /\ IsSpace(Head(s)) THEN LStrip(Tail(s)) ELSE s

RECURSIVE RStrip(_)
RStrip(s) ==
    IF s /= << >> /\ IsSpace(s[Len(s)]) THEN RStrip(SubSeq(s, 1, Len(s) - 1)) ELSE s

\* str.strip()
Strip(s) == RStrip(LStrip(s))

\* str.replace(c, '')
Remove(s, c) == SelectSeq(s, LAMBDA x : x /= c)

\* a in b for strings
IsSubstring(a, b) ==
    \E i \in 0..(Len(b) - Len(a)) : SubSeq(b, i + 1, i + Len(a)) = a

\* set(str.split()): the whitespace-delimited tokens
Words(s) ==
    { SubSeq(s, i, j) : <<i, j>> \in
        { p \in (1..Len(s)) \X (1..Len(s)) :
            /\ p[1] <= p[2]
            /\ \A k \in p[1]..p[2] : ~IsSpace(s[k])
            /\ (p[1] = 1 \/ IsSpace(s[p[1] - 1]))
            /\ (p[2] = Len(s) \/ IsSpace(s[p[2] + 1])) } }

\* user.get("location", "").lower().strip() if user.get("location") else ""
NormLocation(loc) == IF loc = NoLocation THEN << >> ELSE Strip(Lower(loc))

(***************************************************************************)
(* calculate_buddy_score, factor by factor.  Sports and goals are          *)
(* fractions <<numerator, denominator>> of thousandths.                    *)
(***************************************************************************)
\* _extract_ids over the joined sport / goal rows of a profile: the set
\* of their non-null ids
extract_ids(items) == { x \in items : x /= None }

\* the partial-credit value granted when exactly one user has no sports
SportsFactor_partial(user1, user2) ==
    LET user1_sports == extract_ids(user1.sports)
        user2_sports == extract_ids(user2.sports)
    IN  IF user1_sports /= {} /\ user2_sports /= {}
        THEN <<350 * Cardinality(user1_sports \cap user2_sports),
               Cardinality(user1_sports \cup user2_sports)>>
        ELSE IF user1_sports = {} /\ user2_sports = {}
        THEN <<175, 1>>
        ELSE <<150, 1>>

SportsFactor(user1, user2) ==
    LET user1_sports == extract_ids(user1.sports)
        user2_sports == extract_ids(user2.sports)
        common_sports == user1_sports \cap user2_sports
        total_sports == user1_sports \cup user2_sports
    IN  IF user1_sports /= {} /\ user2_sports /= {}
        THEN <<350 * Cardinality(common_sports), Cardinality(total_sports)>>
        ELSE IF user1_sports = {} /\ user2_sports = {}
        THEN <<175, 1>>
        ELSE IF Cardinality(user1_sports) > 0 /\ Cardinality(user2_sports) > 0
        THEN (IF common_sports /= {} THEN <<150, 1>> ELSE <<0, 1>>)
        ELSE <<0, 1>>

\* no neutral value when both users have no goals
GoalsFactor_absent(user1, user2) ==
    LET user1_goals == extract_ids(user1.goals)
        user2_goals == extract_ids(user2.goals)
    IN  IF user1_goals /= {} /\ user2_goals /= {}
        THEN <<250 * Cardinality(user1_goals \cap user2_goals),
               Cardinality(user1_goals \cup user2_goals)>>
        ELSE <<0, 1>>

GoalsFactor(user1, user2) ==
    LET user1_goals == extract_ids(user1.goals)
        user2_goals == extract_ids(user2.goals)
        common_goals == user1_goals \cap user2_goals
        total_goals == user1_goals \cup user2_goals
    IN  IF user1_goals /= {} /\ user2_goals /= {}
        THEN <<250 * Cardinality(common_goals), Cardinality(total_goals)>>
        ELSE IF user1_goals = {} /\ user2_goals = {}
        THEN <<125, 1>>
        ELSE <<0, 1>>

\* without the tier of equality after removing commas and spaces
LocationFactor_nopunct(location1, location2) ==
    LET loc1 == NormLocation(location1)
        loc2 == NormLocation(location2)
    IN  IF loc1 /= << >> /\ loc2 /= << >>
        THEN IF loc1 = loc2 THEN 200
             ELSE IF IsSubstring(loc1, loc2) \/ IsSubstring(loc2, loc1) THEN 120
             ELSE IF { w \in Words(loc1) \cap Words(loc2) : Len(w) > 2 } /= {}
             THEN 80
             ELSE 0
        ELSE 50

LocationFactor(location1, location2) ==
    LET loc1 == NormLocation(location1)
        loc2 == NormLocation(location2)
    IN  IF loc1 /= << >> /\ loc2 /= << >>
        THEN IF loc1 = loc2 THEN 200
             ELSE IF Remove(Remove(loc1, ","), " ") = Remove(Remove(loc2, ","), " ")
             THEN 180
             ELSE IF IsSubstring(loc1, loc2) \/ IsSubstring(loc2, loc1) THEN 120
             ELSE IF { w \in Words(loc1) \cap Words(loc2) : Len(w) > 2 } /= {}
             THEN 80
             ELSE 0
        ELSE 50

\* abs(age1 - age2) raises TypeError when both ages are truthy and one of
\* them is no number
AgeRaises(age1, age2) ==
    /\ age1 /= None /\ age1 /= 0
    /\ age2 /= None /\ age2 /= 0
    /\ (age1 = NotANumber \/ age2 = NotANumber)

\* the difference taken without abs()
AgeFactor_signed(age1, age2) ==
    IF Truthy(age1) /\ Truthy(age2)
    THEN LET age_diff == age1 - age2
         IN  IF age_diff <= 3 THEN 100
             ELSE IF age_diff <= 5 THEN 75
             ELSE IF age_diff <= 10 THEN 50
             ELSE IF age_diff <= 15 THEN 25
             ELSE 0
    ELSE 0

AgeFactor(age1, age2) ==
    IF Truthy(age1) /\ Truthy(age2)
    THEN LET age_diff == Abs(age1 - age2)
         IN  IF age_diff <= 3 THEN 100
             ELSE IF age_diff <= 5 THEN 75
             ELSE IF age_diff <= 10 THEN 50
             ELSE IF age_diff <= 15 THEN 25
             ELSE 0
    ELSE 0

\* the both-low tier credited 0.005 instead of 0.05
ActivityTier_lowtier(user1_events, user2_events) ==
    IF user1_events >= 5 /\ user2_events >= 5 THEN 100
    ELSE IF user1_events >= 3 /\ user2_events >= 3 THEN 75
    ELSE IF user1_events <= 2 /\ user2_events <= 2 THEN 5
    ELSE IF Abs(user1_events - user2_events) > 10 THEN 20
    ELSE 50

\* the tier rule on two approved-event counts
ActivityTier(user1_events, user2_events) ==
    IF user1_events >= 5 /\ user2_events >= 5 THEN 100
    ELSE IF user1_events >= 3 /\ user2_events >= 3 THEN 75
    ELSE IF user1_events <= 2 /\ user2_events <= 2 THEN 50
    ELSE IF Abs(user1_events - user2_events) > 10 THEN 20
    ELSE 50

\* dict.get(uid, 0) on an event-count map (a function on a set of ids)
CountOf(counts, uid) == IF uid \in DOMAIN counts THEN counts[uid] ELSE 0

\* activity: how the caller supplies the event counts.
\*   mode "map"    event_counts is passed (the counts of the map are used)
\*   mode "client" event_counts is None and a client is passed: the two
\*                 count queries run; failed says that one of them raises
\*   mode "none"   neither is passed: the factor adds nothing
ActivityFactor(user1, user2, activity) ==
    IF activity.mode = "map"
    THEN ActivityTier(CountOf(activity.counts, user1.id),
                      CountOf(activity.counts, user2.id))
    ELSE IF activity.mode = "client"
    THEN IF activity.failed THEN 50
         ELSE ActivityTier(CountOf(activity.counts, user1.id),
                           CountOf(activity.counts, user2.id))
    ELSE 0

\* score * 100 returned without round(): cut off at the unit
Round2_unrounded(num, den) == (1000 * num) \div den

\* round(score * 100, 2) of the fraction num/den of thousandths, in
\* ten-thousandths of a point.  No tie occurs below eight sports or goals
\* in a union, so rounding half up is Python's rounding here.
Round2(num, den) == 100 * ((20 * num + den) \div (2 * den))

CalcRaises(user1, user2) == AgeRaises(user1.age, user2.age)

\* lines 28-99 and 134: the sum of the sports, goals, location and age
\* factors and of an activity contribution, as the returned percentage
ScoreWithActivity(user1, user2, activity_part) ==
    LET s == SportsFactor(user1, user2)
        g == GoalsFactor(user1, user2)
        rest == LocationFactor(user1.location, user2.location)
                + AgeFactor(user1.age, user2.age)
                + activity_part
    IN  Round2(s[1] * g[2] + g[1] * s[2] + rest * s[2] * g[2], s[2] * g[2])

calculate_buddy_score(user1, user2, activity) ==
    ScoreWithActivity(user1, user2, ActivityFactor(user1, user2, activity))

NoCounts == << >>
NoActivity == [mode |-> "none", counts |-> NoCounts, failed |-> FALSE]
MapOf(counts) == [mode |-> "map", counts |-> counts, failed |-> FALSE]

(***************************************************************************)
(* State.                                                                  *)
(*   pair, scored   the scoring harness: two profiles with the way the     *)
(*                  event counts are supplied, and the two scores          *)
(*                  calculate_buddy_score returns for them, one per        *)
(*                  argument order                                         *)
(*   users          the users table, in the order the repository returns   *)
(*                  its rows; a row carries the user's user_sports and     *)
(*                  user_goals rows as the sets sports and goals           *)
(*   events         approved event_rsvps rows per user id                  *)
(*   buddies        the buddies table                                      *)
(*   ranked         the last find_potential_buddies call: its arguments,   *)
(*                  the reads that failed during it, and what it returned  *)
(*   next_id        the id the buddies table gives its next row            *)
(*   inflight       create calls that passed their checks and have not     *)
(*                  inserted yet                                           *)
(*   reply          the response of the last handler that finished         *)
(***************************************************************************)
VARIABLES pair, scored, users, events, buddies, ranked, next_id, inflight, reply, suggested, sports_cache, sports_cache_at, now, sports_rows, readers, served, fetches, listed, log

vars == <<pair, scored, users, events, buddies, ranked, next_id, inflight, reply, suggested, sports_cache, sports_cache_at, now, sports_rows, readers, served, fetches, listed, log>>

(***************************************************************************)
(* find_potential_buddies(user, supabase, limit, min_score).               *)
(* fails is the set of repository reads that raise during the call.        *)
(***************************************************************************)
Reads == {"buddies1", "buddies2", "users", "user_sports", "user_goals", "event_rsvps"}

\* only the rows the subject initiated are looked up
ExistingBuddyUserIds_oneway(user_id, fails) ==
    IF "buddies1" \in fails THEN {}
    ELSE { b.user2_id : b \in { r \in buddies : r.user1_id = user_id } }

\* lines 151-164: the ids already related to user_id.  The second query
\* is not issued when the first one raises; what the first one added stays
\* when the second one raises.
ExistingBuddyUserIds(user_id, fails) ==
    IF "buddies1" \in fails THEN {}
    ELSE { b.user2_id : b \in { r \in buddies : r.user1_id = user_id } }
         \cup (IF "buddies2" \in fails THEN {}
               ELSE { b.user1_id : b \in { r \in buddies : r.user2_id = user_id } })

\* the fetch capped at the limit itself
\* line 167: the rows fetched beyond the limit, and the rows fetched when
\* there is no limit
FetchSlack == 20

FetchCap == 300

FetchLimit_noslack(limit) == IF Truthy(limit) THEN limit ELSE FetchCap

\* line 167
FetchLimit(limit) == IF Truthy(limit) THEN limit + FetchSlack ELSE FetchCap

Take(s, n) == SubSeq(s, 1, Min(n, Len(s)))

\* line 169: users where is_active and is_discoverable and id != user_id,
\* limit(fetch_limit)
UsersQuery(user_id, fetch_limit) ==
    Take(SelectSeq(users, LAMBDA u : u.is_active /\ u.is_discoverable /\ u.id /= user_id),
         fetch_limit)

\* lines 168-177
PotentialUsers(user_id, limit, fails) ==
    IF "users" \in fails THEN << >>
    ELSE LET existing == ExistingBuddyUserIds(user_id, fails)
         IN  SelectSeq(UsersQuery(user_id, FetchLimit(limit)),
                       LAMBDA u : u.id \notin existing)

\* one try block around both fetches: either failure empties both
AttachAffiliations_shared(u, fails) ==
    IF "user_sports" \in fails \/ "user_goals" \in fails
    THEN [u EXCEPT !.sports = {}, !.goals = {}]
    ELSE u

\* lines 184-207: the sports and goals attached to a candidate
AttachAffiliations(u, fails) ==
    [u EXCEPT !.sports = IF "user_sports" \in fails THEN {} ELSE u.sports,
              !.goals = IF "user_goals" \in fails THEN {} ELSE u.goals]

\* lines 209-218: approved rsvp rows counted per candidate id; a user
\* without rows has no key
EventCounts(potential_ids, fails) ==
    IF "event_rsvps" \in fails THEN NoCounts
    ELSE LET keys == { uid \in potential_ids : CountOf(events, uid) > 0 }
         IN  [uid \in keys |-> events[uid]]

\* lines 222-228: one entry of the returned list
ScoredEntry(user, u, event_counts) ==
    [id |-> u.id,
     score |-> calculate_buddy_score(user, u, MapOf(event_counts)),
     sports |-> u.sports,
     goals |-> u.goals,
     event_count |-> CountOf(event_counts, u.id)]

\* x goes in front of the entries whose score equals its own
InsertEntry_unstable(sorted, x) ==
    LET k == Cardinality({ i \in DOMAIN sorted : sorted[i].score > x.score })
    IN  SubSeq(sorted, 1, k) \o <<x>> \o SubSeq(sorted, k + 1, Len(sorted))

\* list.sort(key=score, reverse=True) is stable: x goes behind every entry
\* whose score is at least its own
InsertEntry(sorted, x) ==
    LET k == Cardinality({ i \in DOMAIN sorted : sorted[i].score >= x.score })
    IN  SubSeq(sorted, 1, k) \o <<x>> \o SubSeq(sorted, k + 1, Len(sorted))

RECURSIVE SortByScore(_)
SortByScore(entries) ==
    IF entries = << >> THEN << >>
    ELSE InsertEntry(SortByScore(SubSeq(entries, 1, Len(entries) - 1)),
                     entries[Len(entries)])

\* lines 233-236
ApplyLimit(entries, limit) == IF Truthy(limit) THEN Take(entries, limit) ELSE entries

Returned(list) == [raised |-> FALSE, list |-> list, reads |-> TRUE]
Raised == [raised |-> TRUE, list |-> << >>, reads |-> TRUE]
\* lines 147-149: no read is issued
Refused == [raised |-> FALSE, list |-> << >>, reads |-> FALSE]

\* the entries below min_score dropped
ScoredList_filtered(user, potential_users, event_counts, min_score) ==
    SelectSeq([i \in DOMAIN potential_users |->
                  ScoredEntry(user, potential_users[i], event_counts)],
              LAMBDA e : e.score >= min_score)

\* lines 221-228: every potential user is scored and appended; min_score
\* is not read
ScoredList(user, potential_users, event_counts, min_score) ==
    [i \in DOMAIN potential_users |-> ScoredEntry(user, potential_users[i], event_counts)]

\* min_score is accepted and never read
find_potential_buddies(user, limit, min_score, fails) ==
    IF ~Truthy(user.id) THEN Refused
    ELSE LET fetched == PotentialUsers(user.id, limit, fails)
             potential_users == [i \in DOMAIN fetched |-> AttachAffiliations(fetched[i], fails)]
             potential_ids == { potential_users[i].id : i \in DOMAIN potential_users }
             event_counts == EventCounts(potential_ids, fails)
         IN  IF potential_ids = {} THEN Returned(<< >>)
             ELSE IF \E i \in DOMAIN potential_users : CalcRaises(user, potential_users[i])
             THEN Raised
             ELSE Returned(ApplyLimit(
                     SortByScore(ScoredList(user, potential_users, event_counts, min_score)),
                     limit))

(***************************************************************************)
(* get_suggested_buddies(limit, min_score, offset) of api/buddies.py for   *)
(* current_user.  fails may also hold the two reads of the caller's own    *)
(* sports and goals.                                                       *)
(***************************************************************************)
SuggestReads == {"current_user_sports", "current_user_goals"}

Response(code, list) == [code |-> code, list |-> list]

\* buddies.py 45-64: the caller's sports and goals, empty when the read fails
WithOwnAffiliations(current_user, fails) ==
    [current_user EXCEPT
        !.sports = IF "current_user_sports" \in fails THEN {} ELSE current_user.sports,
        !.goals = IF "current_user_goals" \in fails THEN {} ELSE current_user.goals]

\* buddies.py 67: all_buddies[offset:offset + limit]
Slice(list, offset, limit) ==
    SubSeq(list, offset + 1, Min(offset + limit, Len(list)))

\* buddies.py 31-69 and 118-161; an exception of find_potential_buddies
\* is not caught and becomes the 500 of the framework
get_suggested_buddies(current_user, limit, min_score, offset, fails) ==
    IF ~Truthy(current_user.id) THEN Response(400, << >>)
    ELSE IF ~current_user.is_discoverable THEN Response(403, << >>)
    ELSE LET all_buddies == find_potential_buddies(
                                WithOwnAffiliations(current_user, fails), None, 0, fails)
         IN  IF all_buddies.raised THEN Response(500, << >>)
             ELSE Response(200, Slice(all_buddies.list, offset, limit))

(***************************************************************************)
(* The inputs of the scoring harness.                                      *)
(***************************************************************************)
SportSets == SUBSET (1..MaxSportId)
GoalSets == SUBSET (1..MaxGoalId)
Locations ==
    {NoLocation, Blank, WashingtonCommaDC, WashingtonDC, PaddedLowerDC, JustDC,
     OremUtah, LehiUtah, DCMetro}
Ages == {None} \cup (0..MaxAge)

ProfilesOf(ids, S, G, L, A) ==
    [id : ids, sports : S, goals : G, location : L, age : A]

\* every value of one field, the other fields all missing or all set
ScoreProfiles(ids) ==
    ProfilesOf(ids, SportSets, {{}}, {NoLocation}, {None})
    \cup ProfilesOf(ids, SportSets, {{1}}, {WashingtonCommaDC}, {MaxAge})
    \cup ProfilesOf(ids, {{}}, GoalSets, {NoLocation}, {None})
    \cup ProfilesOf(ids, {{1}}, GoalSets, {WashingtonCommaDC}, {MaxAge})
    \cup ProfilesOf(ids, {{}}, {{}}, Locations, {None})
    \cup ProfilesOf(ids, {{1}}, {{1}}, Locations, {MaxAge})
    \cup ProfilesOf(ids, {{}}, {{}}, {NoLocation}, Ages)
    \cup ProfilesOf(ids, {{1}}, {{1}}, {WashingtonCommaDC}, Ages)

CountMaps == [{1, 2} -> 0..MaxEvents]

ActivitiesFew ==
    {NoActivity, MapOf(NoCounts), MapOf([u \in {1, 2} |-> MaxEvents])}
ActivitiesAll ==
    {NoActivity}
    \cup { MapOf(c) : c \in CountMaps }
    \cup [mode : {"client"}, counts : CountMaps, failed : BOOLEAN]

EdgeProfiles(ids) ==
    ProfilesOf(ids, {{}}, {{}}, {NoLocation}, {None})
    \cup ProfilesOf(ids, {{1}}, {{1}}, {WashingtonCommaDC}, {MaxAge})

ScoreCases ==
    [user1 : ScoreProfiles({1}), user2 : ScoreProfiles({2}), activity : ActivitiesFew]
    \cup [user1 : EdgeProfiles({1}), user2 : EdgeProfiles({2}), activity : ActivitiesAll]

NotScored == [done |-> FALSE, fwd |-> 0, rev |-> 0]
NoPair ==
    [user1 |-> CHOOSE p \in EdgeProfiles({1}) : p.sports = {},
     user2 |-> CHOOSE p \in EdgeProfiles({2}) : p.sports = {},
     activity |-> NoActivity]

(***************************************************************************)
(* The repository contents of the ranking passes.                          *)
(***************************************************************************)
\* rows of the users table behind the three people of the model
NumFillers == 20
\* relationship rows in a repository the ranking reads
MaxRelations == 2
\* the limit argument is None or 0..MaxLimit
MaxLimit == 2

PersonaFull == [sports |-> {1}, goals |-> {1}, location |-> WashingtonCommaDC, age |-> MaxAge]
PersonaNear == [sports |-> {1, 2}, goals |-> {1}, location |-> WashingtonDC, age |-> MaxAge - 4]
PersonaBlank == [sports |-> {}, goals |-> {}, location |-> NoLocation, age |-> None]
PersonaBad == [sports |-> {1}, goals |-> {}, location |-> JustDC, age |-> NotANumber]
Personas == {PersonaFull, PersonaNear, PersonaBlank}

Row(id, persona, active, discoverable) ==
    [id |-> id, is_active |-> active, is_discoverable |-> discoverable,
     sports |-> persona.sports, goals |-> persona.goals,
     location |-> persona.location, age |-> persona.age]

Fillers == [i \in 1..NumFillers |-> Row(3 + i, PersonaBlank, TRUE, TRUE)]

\* three people; the third may be inactive or hidden
SmallTables(personas3) ==
    { <<Row(1, PersonaFull, TRUE, TRUE), Row(2, p2, TRUE, TRUE), Row(3, p3, f[1], f[2])>> :
        p2 \in Personas, p3 \in personas3,
        f \in {<<TRUE, TRUE>>, <<FALSE, TRUE>>, <<TRUE, FALSE>>} }

\* the same people with NumFillers rows between the first and the others
PaddedTables ==
    { <<Row(1, PersonaFull, TRUE, TRUE)>> \o Fillers
        \o <<Row(2, p2, TRUE, TRUE), Row(3, p3, TRUE, TRUE)>> :
        p2 \in Personas, p3 \in Personas }

EventWorlds ==
    { <<0, 0, 0>>, <<MaxEvents, 5, MaxEvents>>, <<0, MaxEvents, 3>> }

BuddyRow(id, user1_id, user2_id, match_score, status) ==
    [id |-> id, user1_id |-> user1_id, user2_id |-> user2_id,
     match_score |-> match_score, status |-> status]

RelationPairs == {<<1, 2>>, <<2, 1>>, <<3, 1>>, <<2, 3>>}

RelationWorlds ==
    { { BuddyRow(3 * p[1] + p[2], p[1], p[2], 500000,
                 IF p[1] < p[2] THEN "pending" ELSE "accepted") : p \in ps } :
        ps \in { q \in SUBSET RelationPairs : Cardinality(q) <= MaxRelations } }

NotRanked ==
    [called |-> FALSE, user |-> Row(None, PersonaBlank, TRUE, TRUE), limit |-> None,
     min_score |-> 0, fails |-> {}, out |-> Refused]

NoReply == [op |-> "none", caller |-> None, buddy_id |-> None, code |-> 0, detail |-> ""]

ScoreIdle == pair = NoPair /\ scored = NotScored
NotSuggested ==
    [called |-> FALSE, user |-> Row(None, PersonaBlank, TRUE, TRUE), limit |-> 1,
     min_score |-> 0, offset |-> 0, fails |-> {}, out |-> Response(0, << >>)]

RankIdle == ranked = NotRanked /\ suggested = NotSuggested
\* rows of the sports table, in the order("name") of the query
SportsRow(id, name) == [id |-> id, name |-> name, icon |-> "icon", created_at |-> "2024"]

Running == SportsRow(1, "Running")

Tennis == SportsRow(2, "Tennis")

\* the contents the sports table can have
SportsTables == {<< >>, <<Running>>, <<Running, Tennis>>}

\* _sports_cache is None: a value no fetch can give
NoSportsCache == <<[id |-> None, name |-> "None", icon |-> "None"]>>

NotServed ==
    [n |-> 0, code |-> 0, body |-> << >>, read |-> FALSE, failed |-> FALSE,
     concurrent |-> 0]

\* sports.py 10-11: the cache of a worker that has served no call
SportsIdle ==
    /\ sports_cache = NoSportsCache
    /\ sports_cache_at = 0
    /\ now = 0
    /\ sports_rows = <<Running>>
    /\ readers = 0
    /\ served = NotServed
    /\ fetches = {}

\* no status query parameter
NoFilter == ""

NotListed == [caller |-> None, status_filter |-> NoFilter, fails |-> {}, items |-> << >>]

HandlersIdle ==
    /\ next_id = 1 /\ inflight = {} /\ reply = NoReply
    /\ listed = NotListed /\ log = << >>
    /\ SportsIdle

InitScore ==
    /\ pair \in ScoreCases
    /\ scored = NotScored
    /\ users = << >>
    /\ events = << >>
    /\ buddies = {}
    /\ RankIdle
    /\ HandlersIdle

\* calculate_buddy_score(user1, user2, ...) and, with the arguments
\* swapped, calculate_buddy_score(user2, user1, ...)
ScorePair ==
    /\ ~scored.done
    /\ pair \in ScoreCases
    /\ scored' = [done |-> TRUE,
                  fwd |-> calculate_buddy_score(pair.user1, pair.user2, pair.activity),
                  rev |-> calculate_buddy_score(pair.user2, pair.user1, pair.activity)]
    /\ UNCHANGED <<pair, users, events, buddies, ranked, next_id, inflight, reply, suggested, sports_cache, sports_cache_at, now, sports_rows, readers, served, fetches, listed, log>>

NextScore == ScorePair

SpecScore == InitScore /\ [][NextScore]_vars

\* C4: for every pair of profiles, whichever of sports, goals, location,
\* age and activity data is missing, calculate_buddy_score returns a value
\* between 0.00 and 100.00 that is a multiple of 0.01.
ScoreInRangeTwoDecimals ==
    scored.done =>
        /\ 0 <= scored.fwd /\ scored.fwd <= 1000000
        /\ scored.fwd % 100 = 0

\* a score that needed rounding (one shared sport of three, 11.666...),
\* for profiles without location, age and activity data
WitnessRoundedScore ==
    /\ scored.done
    /\ Cardinality(pair.user1.sports \cap pair.user2.sports) = 1
    /\ Cardinality(pair.user1.sports \cup pair.user2.sports) = 3
    /\ pair.user1.location = NoLocation
    /\ pair.user2.age = None
    /\ pair.activity = NoActivity
    /\ scored.fwd = 291700

\* C5: calculate_buddy_score(A, B, event_counts) equals
\* calculate_buddy_score(B, A, event_counts).
ScoreSymmetric == scored.done => scored.fwd = scored.rev

\* two profiles that differ in sports, age and event count were scored
WitnessUnequalPairScored ==
    /\ scored.done
    /\ pair.user1.sports /= pair.user2.sports
    /\ Truthy(pair.user1.age) /\ Truthy(pair.user2.age)
    /\ pair.user1.age > pair.user2.age + 5
    /\ pair.activity.mode = "map"

\* neither profile has a location (unset or empty) or an age, and neither
\* an event-count map nor a repository client is passed
NoLocationAgeActivity ==
    /\ pair.user1.location = NoLocation /\ pair.user2.location = NoLocation
    /\ pair.user1.age = None /\ pair.user2.age = None
    /\ pair.activity = NoActivity

\* C13 as stated: two profiles with disjoint sports, disjoint goals, no
\* location, no age and no activity data score exactly 35.0.
DisjointProfilesScoreNeutral ==
    (/\ scored.done
     /\ pair.user1.sports \cap pair.user2.sports = {}
     /\ pair.user1.goals \cap pair.user2.goals = {}
     /\ NoLocationAgeActivity) => scored.fwd = 350000

\* C13 as amended: two profiles without any sport and without any goal,
\* with no location, no age and no activity data score exactly 35.0.
EmptyProfilesScoreNeutral ==
    (/\ scored.done
     /\ pair.user1.sports = {} /\ pair.user2.sports = {}
     /\ pair.user1.goals = {} /\ pair.user2.goals = {}
     /\ NoLocationAgeActivity) => scored.fwd = 350000 /\ scored.rev = 350000

\* two empty profiles, of different users, were scored at 35.0
WitnessEmptyProfilesScored ==
    /\ scored.done
    /\ pair.user1.id /= pair.user2.id
    /\ pair.user1.sports \cup pair.user2.sports = {}
    /\ pair.user1.goals \cup pair.user2.goals = {}
    /\ NoLocationAgeActivity
    /\ scored.fwd = 350000

\* the location contribution to a scored pair, in thousandths: what the
\* score loses or gains against the same pair with both locations unset
LocationShare ==
    50 + (scored.fwd
            - calculate_buddy_score([pair.user1 EXCEPT !.location = NoLocation],
                                    [pair.user2 EXCEPT !.location = NoLocation],
                                    pair.activity)) \div 1000

\* the tier the rule gives two location strings
TierOf(a, b) ==
    LET x == Strip(Lower(a))
        y == Strip(Lower(b))
    IN  IF x = << >> \/ y = << >> THEN 50
        ELSE IF x = y THEN 200
        ELSE IF Remove(Remove(x, ","), " ") = Remove(Remove(y, ","), " ") THEN 180
        ELSE IF IsSubstring(x, y) \/ IsSubstring(y, x) THEN 120
        ELSE IF \E w \in Words(x) \cap Words(y) : Len(w) > 2 THEN 80
        ELSE 0

\* the tiers of the locations of the model, pair by pair
ExpectedTier(a, b) ==
    LET empty == {NoLocation, Blank}
        commaDC == {WashingtonCommaDC, PaddedLowerDC}
        holdsDC == commaDC \cup {WashingtonDC, DCMetro}
    IN  IF a \in empty \/ b \in empty THEN 50
        ELSE IF a = b \/ {a, b} \subseteq commaDC THEN 200
        ELSE IF \E c \in commaDC : {a, b} = {c, WashingtonDC} THEN 180
        ELSE IF \E h \in holdsDC : {a, b} = {JustDC, h} THEN 120
        ELSE IF {a, b} = {OremUtah, LehiUtah} THEN 80
        ELSE 0

\* C18: the location contribution is the first matching tier, after
\* lower-casing and trimming: exact equality 0.20, equality after removing
\* commas and spaces 0.18, containment 0.12, a shared token longer than two
\* characters 0.08, else 0, and 0.05 when either location is empty or
\* unset; "Washington, DC" against "Washington DC" gives 0.18.
LocationTiersInOrder ==
    scored.done =>
        /\ LocationShare = TierOf(pair.user1.location, pair.user2.location)
        /\ LocationShare = ExpectedTier(pair.user1.location, pair.user2.location)
        /\ ({pair.user1.location, pair.user2.location} = {WashingtonCommaDC, WashingtonDC}
               => LocationShare = 180)

\* "Washington, DC" was scored against "Washington DC" for two users with
\* a sport, a goal and an age
WitnessWashingtonPair ==
    /\ scored.done
    /\ pair.user1.location = WashingtonCommaDC
    /\ pair.user2.location = WashingtonDC
    /\ pair.user1.sports /= {} /\ pair.user2.age /= None
    /\ LocationShare = 180

\* the score of the scored pair with both sport sets, or both goal sets,
\* emptied
WithoutSports ==
    calculate_buddy_score([pair.user1 EXCEPT !.sports = {}],
                          [pair.user2 EXCEPT !.sports = {}], pair.activity)
WithoutGoals ==
    calculate_buddy_score([pair.user1 EXCEPT !.goals = {}],
                          [pair.user2 EXCEPT !.goals = {}], pair.activity)

\* the sports and goals contributions to the scored pair, in
\* ten-thousandths of a point
SportsShare == 175000 + scored.fwd - WithoutSports
GoalsShare == 125000 + scored.fwd - WithoutGoals

\* C19: with exactly one sport set empty the sports factor contributes 0,
\* with exactly one goal set empty the goals factor contributes 0; the
\* sports contribution is the Jaccard value times 0.35 when both sets are
\* non-empty (to the rounding of the score), 0.175 when both are empty and
\* 0 otherwise, never 0.15; a pair with one sport set filled in scores
\* below the same pair with both sets empty.
OneEmptySetContributesNothing ==
    scored.done =>
        LET s1 == extract_ids(pair.user1.sports)
            s2 == extract_ids(pair.user2.sports)
            g1 == extract_ids(pair.user1.goals)
            g2 == extract_ids(pair.user2.goals)
            t == Cardinality(s1 \cup s2)
            c == Cardinality(s1 \cap s2)
        IN  /\ (s1 = {}) /= (s2 = {}) =>
                    /\ SportsShare = 0
                    /\ scored.fwd < WithoutSports
            /\ s1 = {} /\ s2 = {} => SportsShare = 175000
            /\ s1 /= {} /\ s2 /= {} =>
                    /\ SportsShare * t - 350000 * c <= 50 * t
                    /\ 350000 * c - SportsShare * t <= 50 * t
            /\ ~(s1 /= {} /\ s2 /= {} /\ 7 * c = 3 * t) => SportsShare /= 150000
            /\ (g1 = {}) /= (g2 = {}) => GoalsShare = 0

\* a user without sports was scored against a user with a sport, and a
\* user with goals against a user without
WitnessOneSetEmpty ==
    /\ scored.done
    /\ pair.user1.sports = {} /\ pair.user2.sports /= {}
    /\ pair.user1.goals /= {} /\ pair.user2.goals = {}
    /\ scored.fwd = WithoutSports - 175000

(***************************************************************************)
(* Ranking passes over a repository that does not change.                  *)
(***************************************************************************)
InitRankOver(personas3) ==
    /\ ScoreIdle
    /\ \/ /\ users \in SmallTables(personas3)
          /\ events \in EventWorlds
          /\ buddies \in RelationWorlds
       \/ /\ users \in PaddedTables
          /\ events = <<0, 0, 0>>
          /\ buddies = {}
    /\ RankIdle
    /\ HandlersIdle

InitRank == InitRankOver(Personas)

Limits == {None} \cup (0..MaxLimit)
\* the default of the service (0.0) and the default of the API (20.0)
MinScores == {0, 200000}

RankedCall(user, limit, min_score, fails) ==
    [called |-> TRUE, user |-> user, limit |-> limit, min_score |-> min_score,
     fails |-> fails, out |-> find_potential_buddies(user, limit, min_score, fails)]

\* a pass for the first user of the table
RankCall ==
    /\ ~ranked.called
    /\ users /= << >>
    /\ \E limit \in Limits, fails \in SUBSET Reads :
         ranked' = RankedCall(users[1], limit, 0, fails)
    /\ UNCHANGED <<pair, scored, users, events, buddies, next_id, inflight, reply, suggested, sports_cache, sports_cache_at, now, sports_rows, readers, served, fetches, listed, log>>

\* a pass with a min_score
RankCallMinScore ==
    /\ ~ranked.called
    /\ users /= << >>
    /\ \E limit \in Limits, min_score \in MinScores \ {0} :
         ranked' = RankedCall(users[1], limit, min_score, {})
    /\ UNCHANGED <<pair, scored, users, events, buddies, next_id, inflight, reply, suggested, sports_cache, sports_cache_at, now, sports_rows, readers, served, fetches, listed, log>>

\* a pass for a subject without an id
RankWithoutId ==
    /\ ~ranked.called
    /\ \E limit \in Limits, fails \in {{}, Reads} :
         ranked' = RankedCall(Row(None, PersonaFull, TRUE, TRUE), limit, 0, fails)
    /\ UNCHANGED <<pair, scored, users, events, buddies, next_id, inflight, reply, suggested, sports_cache, sports_cache_at, now, sports_rows, readers, served, fetches, listed, log>>

NextRank == RankCall \/ RankCallMinScore \/ RankWithoutId

SpecRank == InitRank /\ [][NextRank]_vars

\* the same passes over repositories whose third user row has an age that
\* is no number
InitRankBad == InitRankOver({PersonaBad})

SpecRankBad == InitRankBad /\ [][NextRank]_vars

(***************************************************************************)
(* What the ranking claims speak of.                                       *)
(***************************************************************************)
\* the ids with a relationship row with user_id, in either direction
Related(user_id) ==
    { b.user2_id : b \in { r \in buddies : r.user1_id = user_id } }
    \cup { b.user1_id : b \in { r \in buddies : r.user2_id = user_id } }

RowsOf(table) == { table[i] : i \in DOMAIN table }

\* active, discoverable, not the subject
Matching(user_id) ==
    { u.id : u \in { r \in RowsOf(users) : r.is_active /\ r.is_discoverable /\ r.id /= user_id } }

\* ... and not already related
Eligible(user_id) == Matching(user_id) \ Related(user_id)

RowOf(id) == CHOOSE u \in RowsOf(users) : u.id = id

IdsOf(list) == { list[i].id : i \in DOMAIN list }

RelationReads == {"buddies1", "buddies2"}

RankedWithId == ranked.called /\ Truthy(ranked.user.id)

\* C1 as stated: the result never contains the subject's own id nor the id
\* of a user who has a relationship row with the subject in either direction.
RankNeverReturnsSelfOrRelated ==
    ranked.called =>
        \A i \in DOMAIN ranked.out.list :
            /\ ranked.out.list[i].id /= ranked.user.id
            /\ ranked.out.list[i].id \notin Related(ranked.user.id)

\* C1 as amended: the result never contains the subject's own id, and when
\* both relationship lookups succeed it contains no user who has a
\* relationship row with the subject in either direction.
RankExcludesSelfAndLookedUpRelated ==
    ranked.called =>
        \A i \in DOMAIN ranked.out.list :
            /\ ranked.out.list[i].id /= ranked.user.id
            /\ (ranked.fails \cap RelationReads = {}
                    => ranked.out.list[i].id \notin Related(ranked.user.id))

\* the pool held the related user 2 (related as initiator and as receiver
\* in different repositories), every read succeeded and user 3 was returned
WitnessRelatedLeftOut ==
    /\ ranked.called
    /\ ranked.fails = {}
    /\ ranked.limit = None
    /\ \E b \in buddies : b.user1_id = 2 /\ b.user2_id = ranked.user.id
    /\ 2 \in Matching(ranked.user.id)
    /\ IdsOf(ranked.out.list) = {3}

\* C2 as stated: limit=k returns exactly min(k, number of eligible
\* candidates) entries, and they are a prefix of the list the call without
\* a limit returns on the same repository contents.
LimitReturnsPrefixOfUnlimited ==
    (RankedWithId /\ ranked.limit /= None) =>
        LET unlimited == find_potential_buddies(ranked.user, None, ranked.min_score,
                                                ranked.fails).list
        IN  /\ Len(ranked.out.list)
                 = Min(ranked.limit, Cardinality(Eligible(ranked.user.id)))
            /\ ranked.out.list = Take(unlimited, ranked.limit)

\* C2 as amended: for k >= 1, when the relationship lookups and the
\* candidate fetch succeed and at most min(k + 20, 300) active,
\* discoverable users other than the subject exist, limit=k returns exactly
\* min(k, number of eligible candidates) entries, and they are a prefix of
\* the list the call without a limit returns (same contents, same failing
\* reads).
LimitReturnsPrefixWhenFetchCoversPool ==
    (/\ RankedWithId
     /\ Truthy(ranked.limit)
     /\ ranked.fails \cap (RelationReads \cup {"users"}) = {}
     /\ Cardinality(Matching(ranked.user.id))
            <= Min(ranked.limit + FetchSlack, FetchCap)) =>
        LET unlimited == find_potential_buddies(ranked.user, None, ranked.min_score,
                                                ranked.fails).list
        IN  /\ Len(ranked.out.list)
                 = Min(ranked.limit, Cardinality(Eligible(ranked.user.id)))
            /\ ranked.out.list = Take(unlimited, ranked.limit)

\* a limit cut the list of a pool that the fetch of limit + 20 rows just
\* covered
WitnessLimitCuts ==
    /\ ranked.called
    /\ Truthy(ranked.limit)
    /\ ranked.fails = {}
    /\ Cardinality(Matching(ranked.user.id)) = ranked.limit + FetchSlack
    /\ Len(ranked.out.list) = ranked.limit
    /\ Cardinality(Eligible(ranked.user.id)) > ranked.limit

\* C6: when the event_rsvps fetch fails the pass does not raise, returns
\* as many candidates as without the failure (the same ones when no limit
\* cuts the list), and every score carries the activity contribution 0.05
\* whatever the users' real event counts are.
ActivityFetchFailureIsNeutral ==
    (RankedWithId /\ "event_rsvps" \in ranked.fails) =>
        LET list == ranked.out.list
            ok == find_potential_buddies(ranked.user, ranked.limit, ranked.min_score,
                                         ranked.fails \ {"event_rsvps"}).list
        IN  /\ ~ranked.out.raised
            /\ Len(list) = Len(ok)
            /\ (~Truthy(ranked.limit) => IdsOf(list) = IdsOf(ok))
            /\ \A i \in DOMAIN list :
                 /\ list[i].score
                      = ScoreWithActivity(ranked.user,
                            AttachAffiliations(RowOf(list[i].id), ranked.fails), 50)
                 /\ list[i].event_count = 0

\* the fetch failed for a subject and a candidate with five or more
\* approved events each
WitnessActivityFetchFailed ==
    /\ ranked.called
    /\ ranked.fails = {"event_rsvps"}
    /\ CountOf(events, ranked.user.id) >= 5
    /\ \E i \in DOMAIN ranked.out.list : CountOf(events, ranked.out.list[i].id) >= 5

\* C7: whatever reads fail, the pass returns a list and does not raise; a
\* failed candidate fetch gives the empty list; a failed relationship read
\* excludes nobody, a failed sports or goals fetch attaches the empty set,
\* and every fetched candidate that is not excluded is scored and returned
\* (as many of them as the limit allows).
RankSurvivesFailingReads ==
    RankedWithId =>
        LET list == ranked.out.list
            fails == ranked.fails
            fetched == IdsOf(UsersQuery(ranked.user.id, FetchLimit(ranked.limit)))
        IN  /\ ~ranked.out.raised
            /\ "users" \in fails => list = << >>
            /\ "users" \notin fails =>
                 /\ IdsOf(list) \subseteq fetched
                 /\ Cardinality(IdsOf(list)) = Len(list)
                 /\ fetched \ Related(ranked.user.id) \subseteq IdsOf(list)
                        \/ Truthy(ranked.limit)
                 /\ "buddies1" \in fails =>
                        Len(list) = IF Truthy(ranked.limit)
                                    THEN Min(ranked.limit, Cardinality(fetched))
                                    ELSE Cardinality(fetched)
                 /\ fails \cap RelationReads = {} =>
                        Len(list) = IF Truthy(ranked.limit)
                                    THEN Min(ranked.limit,
                                             Cardinality(fetched \ Related(ranked.user.id)))
                                    ELSE Cardinality(fetched \ Related(ranked.user.id))
                 /\ \A i \in DOMAIN list :
                      /\ list[i].sports = IF "user_sports" \in fails THEN {}
                                          ELSE RowOf(list[i].id).sports
                      /\ list[i].goals = IF "user_goals" \in fails THEN {}
                                         ELSE RowOf(list[i].id).goals
                      /\ 0 <= list[i].score /\ list[i].score <= 1000000

\* every read but the candidate fetch failed, the sports fetch alone
\* failed in another pass; a related user was in the pool and two
\* candidates came back
WitnessAllSubReadsFailed ==
    /\ ranked.called
    /\ ranked.fails = Reads \ {"users"}
    /\ Related(ranked.user.id) /= {}
    /\ Len(ranked.out.list) = 2
    /\ \E u \in RowsOf(users) : u.id \in IdsOf(ranked.out.list) /\ u.goals /= {}

\* C8, the ranking half: a failure while scoring one candidate gives that
\* candidate the score 50.0 and the pass still returns the others.
ScoringFailureKeepsBatch ==
    (RankedWithId /\ "users" \notin ranked.fails) =>
        /\ ~ranked.out.raised
        /\ \A i \in DOMAIN ranked.out.list :
             CalcRaises(ranked.user, RowOf(ranked.out.list[i].id))
                => ranked.out.list[i].score = 500000

(***************************************************************************)
(* The min_score argument: passes of find_potential_buddies with a         *)
(* min_score, and calls of GET /buddies/suggested.                         *)
(***************************************************************************)
\* Query(10, ge=1, le=50), cut to the model's lists
PageLimits == 1..MaxLimit

\* Query(0, ge=0)
MaxOffset == 1

\* Query(20.0, ge=0.0, le=100.0): the lowest value, the default, the highest
QueryMinScores == {0, 200000, 1000000}

SuggestFails == {{}, {"event_rsvps"}, {"current_user_sports", "current_user_goals"}}

SuggestedCall ==
    /\ ~suggested.called
    /\ users /= << >>
    /\ \E limit \in PageLimits, min_score \in QueryMinScores, offset \in 0..MaxOffset,
          fails \in SuggestFails, discoverable \in BOOLEAN :
         LET current_user == [users[1] EXCEPT !.is_discoverable = discoverable]
         IN  suggested' =
                [called |-> TRUE, user |-> current_user, limit |-> limit,
                 min_score |-> min_score, offset |-> offset, fails |-> fails,
                 out |-> get_suggested_buddies(current_user, limit, min_score, offset, fails)]
    /\ UNCHANGED <<pair, scored, users, events, buddies, ranked, next_id, inflight, reply, sports_cache, sports_cache_at, now, sports_rows, readers, served, fetches, listed, log>>

NextSuggest == RankCallMinScore \/ SuggestedCall

SpecSuggest == InitRank /\ [][NextSuggest]_vars

\* C12: min_score never filters.  A pass of find_potential_buddies returns
\* the list it returns for any other min_score, and without a limit that
\* list holds every fetched eligible candidate whatever its score; a call
\* of get_suggested_buddies answers what it answers for any other
\* min_score, a page of that same unfiltered list.
MinScoreNeverFilters ==
    /\ RankedWithId =>
          /\ \A m \in QueryMinScores :
                ranked.out = find_potential_buddies(ranked.user, ranked.limit, m,
                                                    ranked.fails)
          /\ (ranked.limit = None /\ ranked.fails = {})
                => IdsOf(ranked.out.list) = Eligible(ranked.user.id)
    /\ suggested.called =>
          /\ \A m \in QueryMinScores :
                suggested.out = get_suggested_buddies(suggested.user, suggested.limit, m,
                                                      suggested.offset, suggested.fails)
          /\ suggested.out.code = 200 =>
                suggested.out.list =
                    Slice(find_potential_buddies(
                              WithOwnAffiliations(suggested.user, suggested.fails),
                              None, suggested.min_score, suggested.fails).list,
                          suggested.offset, suggested.limit)

\* a pass with min_score 20.0 returned a candidate scored below 20.0, and a
\* call of the endpoint with min_score 100.0 answered one as well
WitnessBelowMinScoreReturned ==
    /\ ranked.called
    /\ ranked.min_score = 200000
    /\ \E i \in DOMAIN ranked.out.list : ranked.out.list[i].score < ranked.min_score
    /\ suggested.called
    /\ suggested.min_score = 1000000
    /\ \E i \in DOMAIN suggested.out.list :
          suggested.out.list[i].score < suggested.min_score

\* the place of a user's row in the users table, the order the repository
\* returns candidates in
PoolPosition(id) == CHOOSE i \in DOMAIN users : users[i].id = id

\* C11: the returned list is sorted by score in non-increasing order, and
\* two candidates with equal scores keep the relative order they had in
\* the candidate pool the repository returned.
RankSortedDescendingStable ==
    RankedWithId =>
        LET list == ranked.out.list
        IN  \A i \in DOMAIN list, j \in DOMAIN list :
                i < j =>
                    /\ list[i].score >= list[j].score
                    /\ list[i].score = list[j].score
                          => PoolPosition(list[i].id) < PoolPosition(list[j].id)

\* the sort moved a later row of the pool in front of earlier ones, which
\* tie among themselves
WitnessTiesKeptBehindLaterRow ==
    /\ ranked.called
    /\ ranked.fails = {}
    /\ \E i \in DOMAIN ranked.out.list, j \in DOMAIN ranked.out.list,
          k \in DOMAIN ranked.out.list :
            /\ i < j /\ j < k
            /\ ranked.out.list[i].score > ranked.out.list[j].score
            /\ ranked.out.list[j].score = ranked.out.list[k].score
            /\ PoolPosition(ranked.out.list[i].id) > PoolPosition(ranked.out.list[k].id)

\* C14: in a ranking pass whose event_rsvps fetch succeeds, the score of
\* each candidate carries the activity tier of the subject's own and the
\* candidate's own approved-event counts (0.10 when both have five or more).
RankActivityUsesBothCounts ==
    (RankedWithId /\ "event_rsvps" \notin ranked.fails) =>
        \A i \in DOMAIN ranked.out.list :
            ranked.out.list[i].score
                = ScoreWithActivity(
                      ranked.user,
                      AttachAffiliations(RowOf(ranked.out.list[i].id), ranked.fails),
                      ActivityTier(CountOf(events, ranked.user.id),
                                   CountOf(events, ranked.out.list[i].id)))

(***************************************************************************)
(* The buddy-request handlers over a buddies table that changes.           *)
(***************************************************************************)
\* rows the buddies table is given in one run
MaxInserts == 2
\* create calls between their checks and their insert at one time
MaxInflight == 2

Statuses == {"pending", "accepted", "rejected"}

Reply(op, caller, buddy_id, code, detail) ==
    [op |-> op, caller |-> caller, buddy_id |-> buddy_id, code |-> code, detail |-> detail]

UserIds == IdsOf(users)

\* the duplicate check of both create paths: the rows of the pair, looked
\* up in both directions
ExistingEitherWay(user1_id, user2_id) ==
    { b \in buddies :
        \/ b.user1_id = user1_id /\ b.user2_id = user2_id
        \/ b.user1_id = user2_id /\ b.user2_id = user1_id }

\* a users row as select("*") returns it: without sports and goals
BareRow(u) == [u EXCEPT !.sports = {}, !.goals = {}]

ClientCounts == [mode |-> "client", counts |-> events, failed |-> FALSE]

\* buddies.py 224-228: the score of the API path, from the bare rows of
\* the caller and of user2
ApiMatchScore(user1_id, user2_id) ==
    LET user1 == BareRow(RowOf(user1_id))
        user2 == BareRow(RowOf(user2_id))
    IN  IF CalcRaises(user1, user2) THEN 500000
        ELSE calculate_buddy_score(user1, user2, ClientCounts)

\* buddying.py 261-300: the score of the service path, from the rows with
\* their sports and goals; 50.0 when a read or the calculation raises
ServiceMatchScore(user1_id, user2_id, data_read_fails) ==
    LET user1 == RowOf(user1_id)
        user2 == RowOf(user2_id)
    IN  IF data_read_fails \/ CalcRaises(user1, user2) THEN 500000
        ELSE calculate_buddy_score(user1, user2, ClientCounts)

Request(op, user1_id, user2_id, match_score) ==
    [op |-> op, user1_id |-> user1_id, user2_id |-> user2_id, match_score |-> match_score]

\* buddies.py 178-228: create_buddy up to its insert
CreateBuddy(caller, user2_id, user_read_fails, dup_read_fails) ==
    /\ UNCHANGED <<pair, scored, users, events, buddies, ranked, next_id, suggested, sports_cache, sports_cache_at, now, sports_rows, readers, served, fetches, listed, log>>
    /\ IF user2_id = caller
       THEN /\ reply' = Reply("create_buddy", caller, None, 400, "Cannot buddy with yourself")
            /\ UNCHANGED inflight
       ELSE IF user_read_fails \/ user2_id \notin UserIds
       THEN /\ reply' = Reply("create_buddy", caller, None, 404, "User not found")
            /\ UNCHANGED inflight
       ELSE IF ~dup_read_fails /\ ExistingEitherWay(caller, user2_id) /= {}
       THEN /\ reply' = Reply("create_buddy", caller, None, 400, "Buddy already exists")
            /\ UNCHANGED inflight
       ELSE /\ Cardinality(inflight) < MaxInflight
            /\ inflight' = inflight \cup
                  {Request("create_buddy", caller, user2_id, ApiMatchScore(caller, user2_id))}
            /\ UNCHANGED reply

\* buddying.py 248-300: create_buddy_request up to its insert
CreateBuddyRequest(user1_id, user2_id, dup_read_fails, data_read_fails) ==
    /\ UNCHANGED <<pair, scored, users, events, buddies, ranked, next_id, suggested, sports_cache, sports_cache_at, now, sports_rows, readers, served, fetches, listed, log>>
    /\ IF ~dup_read_fails /\ ExistingEitherWay(user1_id, user2_id) /= {}
       THEN /\ reply' = Reply("create_buddy_request", user1_id, None, 0, "Buddy already exists")
            /\ UNCHANGED inflight
       ELSE /\ Cardinality(inflight) < MaxInflight
            /\ inflight' = inflight \cup
                  {Request("create_buddy_request", user1_id, user2_id,
                           ServiceMatchScore(user1_id, user2_id, data_read_fails))}
            /\ UNCHANGED reply

\* buddies.py 230-260, buddying.py 302-313: the insert of a create call
InsertBuddy(req, insert_fails) ==
    /\ req \in inflight
    /\ inflight' = inflight \ {req}
    /\ UNCHANGED <<pair, scored, users, events, ranked, suggested, sports_cache, sports_cache_at, now, sports_rows, readers, served, fetches, listed, log>>
    /\ IF insert_fails
       THEN /\ reply' = Reply(req.op, req.user1_id, None,
                              IF req.op = "create_buddy" THEN 500 ELSE 0,
                              "Failed to create buddy request")
            /\ UNCHANGED <<buddies, next_id>>
       ELSE /\ next_id <= MaxInserts
            /\ buddies' = buddies \cup
                  {BuddyRow(next_id, req.user1_id, req.user2_id, req.match_score, "pending")}
            /\ next_id' = next_id + 1
            /\ reply' = Reply(req.op, req.user1_id, next_id,
                              IF req.op = "create_buddy" THEN 201 ELSE 0, "created")

\* a caller that is neither party, made a party
MayUpdate_party(buddy, user_id) == user_id \in {buddy.user1_id, buddy.user2_id}

\* buddies.py 477-482: only the receiver can update the buddy status
MayUpdate(buddy, user_id) == buddy.user2_id = user_id

\* buddies.py 453-512: update_buddy; the response is built after the write,
\* so a failure there answers 500 with the new status already stored
UpdateBuddy(caller, buddy_id, new_status, read_fails, write_fails, response_fails) ==
    /\ UNCHANGED <<pair, scored, users, events, ranked, next_id, inflight, suggested, sports_cache, sports_cache_at, now, sports_rows, readers, served, fetches, listed, log>>
    /\ LET found == { b \in buddies : b.id = buddy_id }
       IN  IF read_fails \/ found = {}
           THEN /\ reply' = Reply("update_buddy", caller, buddy_id, 404, "Buddy not found")
                /\ UNCHANGED buddies
           ELSE LET buddy == CHOOSE b \in found : TRUE
                IN  IF ~MayUpdate(buddy, caller)
                    THEN /\ reply' = Reply("update_buddy", caller, buddy_id, 403,
                                           "Only the receiver can update buddy status")
                         /\ UNCHANGED buddies
                    ELSE IF write_fails
                    THEN /\ reply' = Reply("update_buddy", caller, buddy_id, 500,
                                           "Failed to update buddy")
                         /\ UNCHANGED buddies
                    ELSE /\ buddies' = (buddies \ {buddy})
                                           \cup {[buddy EXCEPT !.status = new_status]}
                         /\ reply' = IF response_fails
                                     THEN Reply("update_buddy", caller, buddy_id, 500,
                                                "Failed to update buddy")
                                     ELSE Reply("update_buddy", caller, buddy_id, 200,
                                                new_status)

\* any signed-in caller may delete
MayDelete_anyone(buddy, user_id) == user_id = user_id

\* buddies.py 420-424: only a user who is part of the buddy may delete it
MayDelete(buddy, user_id) ==
    ~(buddy.user1_id /= user_id /\ buddy.user2_id /= user_id)

\* buddies.py 395-435: delete_buddy
DeleteBuddy(caller, buddy_id, read_fails, write_fails) ==
    /\ UNCHANGED <<pair, scored, users, events, ranked, next_id, inflight, suggested, sports_cache, sports_cache_at, now, sports_rows, readers, served, fetches, listed, log>>
    /\ LET found == { b \in buddies : b.id = buddy_id }
       IN  IF read_fails \/ found = {}
           THEN /\ reply' = Reply("delete_buddy", caller, buddy_id, 404, "Buddy not found")
                /\ UNCHANGED buddies
           ELSE LET buddy == CHOOSE b \in found : TRUE
                IN  IF ~MayDelete(buddy, caller)
                    THEN /\ reply' = Reply("delete_buddy", caller, buddy_id, 403,
                                           "Not authorized to delete this buddy")
                         /\ UNCHANGED buddies
                    ELSE IF write_fails
                    THEN /\ reply' = Reply("delete_buddy", caller, buddy_id, 500,
                                           "Failed to delete buddy")
                         /\ UNCHANGED buddies
                    ELSE /\ buddies' = { b \in buddies : b.id /= buddy_id }
                         /\ reply' = Reply("delete_buddy", caller, buddy_id, 204, "")

\* lines the logger keeps
MaxLog == 2

\* the reads of list_buddies
ListReads == {"buddies1", "buddies2", "users", "user_sports", "user_goals"}

\* only a failure of the first query counts; a failed second query gives
\* no rows
ListQueriesFail_first(fails) == "buddies1" \in fails

\* buddies.py 285-297: either relationship query raises
ListQueriesFail(fails) == fails \cap {"buddies1", "buddies2"} /= {}

\* the rows of a query answer, in the order of their ids
RECURSIVE ById(_)
ById(rows) ==
    IF rows = {} THEN << >>
    ELSE LET first == CHOOSE r \in rows : \A q \in rows : r.id <= q.id
         IN  <<first>> \o ById(rows \ {first})

\* buddies.py 290-296: buddies1 + buddies2 without the ids already seen
\* and, with a status filter, without the rows of another status
DedupFilter(all_buddies, status_filter) ==
    SelectSeq([i \in DOMAIN all_buddies |-> [row |-> all_buddies[i], at |-> i]],
              LAMBDA e :
                /\ \A j \in 1..(e.at - 1) : all_buddies[j].id /= e.row.id
                /\ (status_filter = NoFilter \/ e.row.status = status_filter))

\* buddies.py 351-364: the details of a user, "Unknown" without a users row
UserDetail(uid, fails) ==
    LET known == uid \in UserIds /\ "users" \notin fails
    IN  [id |-> uid,
         full_name |-> IF known THEN "named" ELSE "Unknown",
         age |-> IF known THEN RowOf(uid).age ELSE None,
         sports |-> IF uid \in UserIds /\ "user_sports" \notin fails
                    THEN RowOf(uid).sports ELSE {},
         goals |-> IF uid \in UserIds /\ "user_goals" \notin fails
                   THEN RowOf(uid).goals ELSE {}]

\* buddies.py 366-377
BuddyDetail(buddy, fails) ==
    [id |-> buddy.id, user1_id |-> buddy.user1_id, user2_id |-> buddy.user2_id,
     match_score |-> buddy.match_score, status |-> buddy.status,
     user1 |-> UserDetail(buddy.user1_id, fails),
     user2 |-> UserDetail(buddy.user2_id, fails)]

\* buddies.py 277-378: list_buddies
ListBuddies(caller, status_filter, fails) ==
    /\ UNCHANGED <<pair, scored, users, events, buddies, ranked, next_id, inflight,
                   suggested, sports_cache, sports_cache_at, now, sports_rows, readers,
                   served, fetches>>
    /\ IF ListQueriesFail(fails)
       THEN /\ Len(log) < MaxLog
            /\ log' = Append(log, "Operational failure listing buddies")
            /\ reply' = Reply("list_buddies", caller, None, 503,
                              "Service temporarily unavailable")
            /\ listed' = [caller |-> caller, status_filter |-> status_filter,
                          fails |-> fails, items |-> << >>]
       ELSE LET buddies1 == IF "buddies1" \in fails THEN << >>
                            ELSE ById({ b \in buddies : b.user1_id = caller })
                buddies2 == IF "buddies2" \in fails THEN << >>
                            ELSE ById({ b \in buddies : b.user2_id = caller })
                kept == DedupFilter(buddies1 \o buddies2, status_filter)
            IN  /\ reply' = Reply("list_buddies", caller, None, 200, "")
                /\ listed' = [caller |-> caller, status_filter |-> status_filter,
                              fails |-> fails,
                              items |-> [i \in DOMAIN kept |-> BuddyDetail(kept[i].row, fails)]]
                /\ UNCHANGED log

(***************************************************************************)
(* Buddy-request creation: users 1 and 2 send requests (to each other, to  *)
(* themselves, to an id that does not exist), and every call may run       *)
(* between the checks and the insert of another.                           *)
(***************************************************************************)
Init ==
    /\ ScoreIdle
    /\ RankIdle
    /\ HandlersIdle
    /\ users \in { <<Row(1, PersonaFull, TRUE, TRUE), Row(2, p2, TRUE, TRUE)>> :
                      p2 \in {PersonaNear, PersonaBad} }
    /\ events = <<MaxEvents, 5>>
    /\ buddies = {}

\* an id no users row has
UnknownUser == 0

Next ==
    \/ \E caller \in UserIds, user2_id \in UserIds \cup {UnknownUser},
          user_read_fails \in BOOLEAN, dup_read_fails \in BOOLEAN :
            CreateBuddy(caller, user2_id, user_read_fails, dup_read_fails)
    \/ \E user1_id \in UserIds, user2_id \in UserIds,
          dup_read_fails \in BOOLEAN, data_read_fails \in BOOLEAN :
            CreateBuddyRequest(user1_id, user2_id, dup_read_fails, data_read_fails)
    \/ \E req \in inflight, insert_fails \in BOOLEAN : InsertBuddy(req, insert_fails)

Spec == Init /\ [][Next]_vars

\* C3: at most one relationship row exists for each unordered pair of
\* users, whatever the interleaving of the create calls and whether or not
\* the duplicate-check read fails.
OneRowPerPair ==
    \A b1 \in buddies, b2 \in buddies :
        {b1.user1_id, b1.user2_id} = {b2.user1_id, b2.user2_id} => b1.id = b2.id

\* C10: no relationship row with user1_id = user2_id is ever persisted
\* (a self-comparison is refused by both create paths).
NoSelfRelationship == \A b \in buddies : b.user1_id /= b.user2_id

(***************************************************************************)
(* The life of existing rows: update_buddy and delete_buddy, called by     *)
(* any of three users on a table of pending rows.                          *)
(***************************************************************************)
PendingWorlds ==
    { { BuddyRow(3 * p[1] + p[2], p[1], p[2], 500000, "pending") : p \in ps } :
        ps \in { q \in SUBSET RelationPairs : Cardinality(q) <= MaxRelations } }

InitLifecycle ==
    /\ ScoreIdle
    /\ RankIdle
    /\ HandlersIdle
    /\ users = <<Row(1, PersonaFull, TRUE, TRUE), Row(2, PersonaNear, TRUE, TRUE),
                 Row(3, PersonaBlank, TRUE, TRUE)>>
    /\ events = <<0, 0, 0>>
    /\ buddies \in PendingWorlds

\* the ids of the rows a table of the model can hold, and one it cannot
RowIds == { 3 * p[1] + p[2] : p \in RelationPairs } \cup {0}

\* no filter, or the status asked for
StatusFilters == {NoFilter, "pending", "accepted"}

\* the reads that fail in a call of list_buddies: none, one relationship
\* query, both, the detail fetches
ListFails ==
    {{}, {"buddies1"}, {"buddies2"}, {"buddies1", "buddies2"},
     {"users", "user_sports", "user_goals"}}

NextLifecycle ==
    \/ \E caller \in UserIds, buddy_id \in RowIds, new_status \in Statuses,
          read_fails \in BOOLEAN, write_fails \in BOOLEAN, response_fails \in BOOLEAN :
            UpdateBuddy(caller, buddy_id, new_status, read_fails, write_fails,
                        response_fails)
    \/ \E caller \in UserIds, buddy_id \in RowIds,
          read_fails \in BOOLEAN, write_fails \in BOOLEAN :
            DeleteBuddy(caller, buddy_id, read_fails, write_fails)

SpecLifecycle == InitLifecycle /\ [][NextLifecycle]_vars

(***************************************************************************)
(* list_buddies, called by any of three users over tables of pending and   *)
(* accepted rows.                                                          *)
(***************************************************************************)
InitList ==
    /\ ScoreIdle
    /\ RankIdle
    /\ HandlersIdle
    /\ users = <<Row(1, PersonaFull, TRUE, TRUE), Row(2, PersonaNear, TRUE, TRUE),
                 Row(3, PersonaBlank, TRUE, TRUE)>>
    /\ events = <<0, 0, 0>>
    /\ buddies \in RelationWorlds

NextList ==
    \E caller \in UserIds, status_filter \in StatusFilters, fails \in ListFails :
        ListBuddies(caller, status_filter, fails)

SpecList == InitList /\ [][NextList]_vars

\* the rows list_buddies is asked for: those of the caller, of the status
\* asked for
ListMatches(caller, status_filter) ==
    { b \in buddies :
        /\ (b.user1_id = caller \/ b.user2_id = caller)
        /\ (status_filter = NoFilter \/ b.status = status_filter) }

\* C17: a list_buddies call in which either relationship query fails
\* answers 503 'Service temporarily unavailable' and logs 'Operational
\* failure listing buddies'; a call answers 200 with an empty list exactly
\* when both queries succeeded and no row matches, and with the matching
\* rows, logging nothing, when both succeeded.
ListBuddiesFailureIs503 ==
    [][reply'.op = "list_buddies" =>
          LET failed == listed'.fails \cap {"buddies1", "buddies2"} /= {}
              matches == ListMatches(listed'.caller, listed'.status_filter)
          IN  /\ failed => /\ reply'.code = 503
                            /\ reply'.detail = "Service temporarily unavailable"
                            /\ log' = Append(log, "Operational failure listing buddies")
              /\ ~failed => /\ reply'.code = 200
                             /\ { listed'.items[i].id : i \in DOMAIN listed'.items }
                                   = { b.id : b \in matches }
                             /\ Len(listed'.items) = Cardinality(matches)
                             /\ log' = log
              /\ (reply'.code = 200 /\ listed'.items = << >>)
                    <=> (~failed /\ matches = {})]_vars

\* the second relationship query failed for a user whose only rows are
\* those the first query returns: 503, not the rows of the first query
WitnessSecondQueryFailed ==
    /\ reply.op = "list_buddies"
    /\ reply.code = 503
    /\ log /= << >>
    /\ listed.fails = {"buddies2"}
    /\ \E b \in buddies : b.user1_id = listed.caller
    /\ \A b \in buddies : b.user2_id /= listed.caller

\* C9: the status of a row changes only in an update_buddy call made by
\* the row's user2_id; an update_buddy call by anyone else
\* (the initiator user1_id included) is rejected and leaves the table as it
\* was, so a row leaves "pending" only through an update by user2.
StatusChangesOnlyByReceiver ==
    [][/\ \A b \in buddies :
            (\E c \in buddies' : c.id = b.id /\ c.status /= b.status)
                => /\ reply'.op = "update_buddy"
                   /\ reply'.code \in {200, 500}
                   /\ reply'.buddy_id = b.id
                   /\ reply'.caller = b.user2_id
       /\ (/\ reply'.op = "update_buddy"
           /\ \E b \in buddies : b.id = reply'.buddy_id /\ b.user2_id /= reply'.caller)
                => /\ reply'.code \in {403, 404}
                   /\ buddies' = buddies]_vars

\* the initiator of a pending row asked for "accepted" and was answered
\* 403: the row is still pending
WitnessInitiatorRejected ==
    /\ reply.op = "update_buddy"
    /\ reply.code = 403
    /\ \E b \in buddies :
         /\ b.id = reply.buddy_id
         /\ b.user1_id = reply.caller
         /\ b.status = "pending"

\* C20: a row leaves the table only in a delete_buddy call for its id made
\* by its user1_id or its user2_id; a delete_buddy call by any other user,
\* or for an id no row has, is rejected and leaves the table as it was; a
\* successful call removes exactly the row with the given id.
DeleteOnlyByParticipant ==
    [][/\ \A b \in buddies :
            (\A c \in buddies' : c.id /= b.id)
                => /\ reply'.op = "delete_buddy"
                   /\ reply'.code = 204
                   /\ reply'.buddy_id = b.id
                   /\ reply'.caller \in {b.user1_id, b.user2_id}
       /\ (/\ reply'.op = "delete_buddy"
           /\ \A b \in buddies : b.id /= reply'.buddy_id)
                => /\ reply'.code = 404
                   /\ buddies' = buddies
       /\ (/\ reply'.op = "delete_buddy"
           /\ \E b \in buddies : /\ b.id = reply'.buddy_id
                                  /\ reply'.caller \notin {b.user1_id, b.user2_id})
                => /\ reply'.code \in {403, 404}
                   /\ buddies' = buddies
       /\ (reply'.op = "delete_buddy" /\ reply'.code = 204)
                => /\ \E b \in buddies : b.id = reply'.buddy_id
                   /\ buddies' \subseteq buddies
                   /\ \A b \in buddies : b \in buddies' <=> b.id /= reply'.buddy_id]_vars

\* a user who is neither party of a row asked to delete it and was
\* answered 403: the row is still in the table
WitnessStrangerDeleteRejected ==
    /\ reply.op = "delete_buddy"
    /\ reply.code = 403
    /\ \E b \in buddies :
         /\ b.id = reply.buddy_id
         /\ reply.caller \notin {b.user1_id, b.user2_id}

(***************************************************************************)
(* list_sports of api/sports.py and its process-wide cache.  list_sports   *)
(* is an async def without an await: on the event loop of a worker its     *)
(* body runs from the clock read to the return without yielding to         *)
(* another coroutine, so concurrent calls are calls that wait in the loop  *)
(* (readers) and run one after the other.                                  *)
(*   now      the clock time.time() reads                                  *)
(*   fetches  every pair of timestamp and value a refresh stored           *)
(***************************************************************************)
CACHE_TTL_SEC == 300

\* seconds the clock advances in one step
TickSeconds == 150
\* steps of the clock
MaxTicks == 5
\* list_sports calls answered
MaxCalls == 4
\* list_sports calls waiting in the event loop at one time
MaxReaders == 2

\* the cache serves entries one second past the TTL
IsFresh_late(cache, cache_at, t) == cache /= NoSportsCache /\ (t - cache_at) <= CACHE_TTL_SEC

\* sports.py 20
IsFresh(cache, cache_at, t) == cache /= NoSportsCache /\ (t - cache_at) < CACHE_TTL_SEC

\* sports.py 26: id, name and icon of every row
Project(data) ==
    [i \in DOMAIN data |-> [id |-> data[i].id, name |-> data[i].name, icon |-> data[i].icon]]

\* the timestamp is renewed and a value already cached is kept
StoreRefresh_stamponly(cache, data, t) ==
    [cache |-> IF cache = NoSportsCache THEN Project(data) ELSE cache, at |-> t]

\* sports.py 26-27: the value and the timestamp a successful refresh stores
StoreRefresh(cache, data, t) == [cache |-> Project(data), at |-> t]

Served(code, body, read, failed) ==
    [n |-> served.n + 1, code |-> code, body |-> body, read |-> read, failed |-> failed,
     concurrent |-> readers - 1]

\* a request reaches the worker
Arrive ==
    /\ readers < MaxReaders
    /\ served.n + readers < MaxCalls
    /\ readers' = readers + 1
    /\ UNCHANGED <<pair, scored, users, events, buddies, ranked, next_id, inflight, reply,
                   suggested, sports_cache, sports_cache_at, now, sports_rows, served,
                   fetches, listed, log>>

\* sports.py 18-36: the body of list_sports; fetch_fails says that
\* get_supabase or the query raises
ListSports(fetch_fails) ==
    /\ readers > 0
    /\ readers' = readers - 1
    /\ UNCHANGED <<pair, scored, users, events, buddies, ranked, next_id, inflight, reply,
                   suggested, now, sports_rows, listed, log>>
    /\ IF IsFresh(sports_cache, sports_cache_at, now)
       THEN /\ served' = Served(200, sports_cache, FALSE, FALSE)
            /\ UNCHANGED <<sports_cache, sports_cache_at, fetches>>
       ELSE IF fetch_fails
       THEN /\ served' = IF sports_cache /= NoSportsCache
                         THEN Served(200, sports_cache, TRUE, TRUE)
                         ELSE Served(500, << >>, TRUE, TRUE)
            /\ UNCHANGED <<sports_cache, sports_cache_at, fetches>>
       ELSE IF sports_rows /= << >>
       THEN LET stored == StoreRefresh(sports_cache, sports_rows, now)
            IN  /\ sports_cache' = stored.cache
                /\ sports_cache_at' = stored.at
                /\ fetches' = fetches \cup {[at |-> now, value |-> Project(sports_rows)]}
                /\ served' = Served(200, stored.cache, TRUE, FALSE)
       ELSE /\ served' = Served(200, << >>, TRUE, FALSE)
            /\ UNCHANGED <<sports_cache, sports_cache_at, fetches>>

\* time passes
Tick ==
    /\ now < MaxTicks * TickSeconds
    /\ now' = now + TickSeconds
    /\ UNCHANGED <<pair, scored, users, events, buddies, ranked, next_id, inflight, reply,
                   suggested, sports_cache, sports_cache_at, sports_rows, readers, served,
                   fetches, listed, log>>

\* the sports table is edited
ChangeSports ==
    /\ \E rows \in SportsTables \ {sports_rows} : sports_rows' = rows
    /\ UNCHANGED <<pair, scored, users, events, buddies, ranked, next_id, inflight, reply,
                   suggested, sports_cache, sports_cache_at, now, readers, served, fetches, listed, log>>

InitSports ==
    /\ ScoreIdle
    /\ RankIdle
    /\ HandlersIdle
    /\ users = << >>
    /\ events = << >>
    /\ buddies = {}

NextSports ==
    \/ Arrive
    \/ \E fetch_fails \in BOOLEAN : ListSports(fetch_fails)
    \/ Tick
    \/ ChangeSports

SpecSports == InitSports /\ [][NextSports]_vars

\* C15: over any sequence of list_sports calls, a call that finds a cached
\* value younger than the 300 s TTL returns it without a repository read;
\* any other call attempts a refresh; when the refresh fails and a value
\* was cached earlier that value is returned and stays cached; the call
\* answers with an error exactly when the refresh fails and nothing was
\* ever cached.
CacheReadThroughServeStale ==
    [][served'.n /= served.n =>
          LET cached == sports_cache /= NoSportsCache
              fresh == cached /\ (now - sports_cache_at) < CACHE_TTL_SEC
          IN  /\ fresh => /\ served'.code = 200
                          /\ served'.body = sports_cache
                          /\ ~served'.read
              /\ ~fresh => served'.read
              /\ (~fresh /\ served'.failed /\ cached)
                    => /\ served'.code = 200
                       /\ served'.body = sports_cache
                       /\ sports_cache' = sports_cache
                       /\ sports_cache_at' = sports_cache_at
              /\ served'.code = 500 <=> (~fresh /\ served'.failed /\ ~cached)
              /\ cached <=> fetches /= {}]_vars

\* a refresh failed past the TTL and the value cached earlier, which is
\* no longer the table's, was served
WitnessStaleServed ==
    /\ served.n > 0
    /\ served.read /\ served.failed
    /\ served.code = 200
    /\ served.body = sports_cache
    /\ now - sports_cache_at >= CACHE_TTL_SEC
    /\ sports_cache /= Project(sports_rows)

\* C16: whatever the order in which concurrent list_sports calls run, the
\* cached value is the whole result of one fetch and carries the timestamp
\* of that same fetch, which is the latest one stored; a value returned
\* from the cache is that value.
CacheNeverTorn ==
    /\ sports_cache /= NoSportsCache =>
          /\ [at |-> sports_cache_at, value |-> sports_cache] \in fetches
          /\ \A f \in fetches : f.at <= sports_cache_at
          /\ \E rows \in SportsTables : sports_cache = Project(rows)
    /\ (served.n > 0 /\ served.code = 200 /\ (~served.read \/ served.failed)) =>
          /\ served.body = sports_cache
          /\ \E f \in fetches : f.value = served.body

\* of calls waiting together, one refreshed the cache and the next was
\* answered from it at the same clock time, a third still waiting; the
\* cache had been refreshed before with another value
WitnessConcurrentReaders ==
    /\ served.n >= 2
    /\ ~served.read
    /\ served.body = sports_cache
    /\ sports_cache_at = now
    /\ readers >= 1
    /\ Cardinality(fetches) >= 2

====
